---- MODULE Spec2Model ----
(***************************************************************************)
(* Model of research_connect: get_top_researchers (search, author          *)
(* aggregation, ranking, report), send_mail and analyze_paper of           *)
(* src/researcher_agent.py, and one session of src/app.py.                 *)
(*                                                                         *)
(* Representation of Python values:                                        *)
(*   - a dict is a TLA+ function whose DOMAIN is the set of present keys;  *)
(*     d.get(k) of an absent key is None;                                  *)
(*   - an author name is a sequence of characters, so that strip() and     *)
(*     len() are computed;                                                 *)
(*   - a free text (snippet, title, author "email" field) is a sequence of *)
(*     whitespace-separated tokens; re.findall with the address pattern    *)
(*     returns, in order and with repetitions, the tokens that are         *)
(*     addresses;                                                          *)
(*   - a link is an atomic string;                                         *)
(*   - authors_data (a dict, iterated in insertion order) is a sequence of *)
(*     entries in insertion order with pairwise distinct names.            *)
(***************************************************************************)
EXTENDS Integers, Sequences, FiniteSets, TLC

VARIABLES
    serp_api_key,   \* os.environ.get("SERPAPI_KEY"): TRUE when set
    search_calls,   \* requests made to the search provider
    pc,             \* position in get_top_researchers
    results,        \* organic_results returned by the search
    paper_idx,      \* index of the paper of the outer loop (0 before the loop)
    author_idx,     \* index of the next author of the inner loop
    emails_found,   \* re.findall over the current paper's snippet
    authors_data,   \* the aggregate
    top_k,          \* the cutoff parameter
    ranked,         \* sorted(...)[:top_k]
    table_rows,     \* the fields of the rendered rows, in order
    ret,            \* the returned string ("" while running)
    \* send_mail
    mail_pc,        \* position in send_mail ("off" when it is not the call modelled)
    mail_app_pass,  \* os.environ.get("MAIL_APP_PASS"): TRUE when set
    mail_args,      \* the arguments passed, a dict of those that are not None
    app_pass,       \* the password handed to yagmail.SMTP
    prompts,        \* getpass prompts shown
    receivers,      \* the local receivers after the fallback
    ans,            \* the local ans after the default body
    send_attempts,  \* calls of yag.send
    dispatched,     \* the messages yag.send accepted, in order
    mail_ret,       \* the returned string ("" while running)
    \* analyze_paper
    paper_pc,       \* position in analyze_paper ("off" when it is not the call modelled)
    gemini_api_key, \* os.environ.get("GEMINI_API_KEY", ""): TRUE when set
    paper_text,     \* the text extract_text_from_pdf returned
    model_calls,    \* calls of analysis_agent.run
    response,       \* the outcome of the model call
    paper_ret,      \* the returned string, as a text (<<>> while running)
    \* app.py, one session
    app_pc,         \* position in the script ("off" when no session is modelled)
    button,         \* the button whose click started this run of the script
    topic_input,    \* the text of the topic field
    uploaded,       \* the uploader holds a file
    receiver_input, \* the text of the receivers field
    agent_result,   \* st.session_state["agent_result"]
    topic,          \* st.session_state["topic"]
    email_section,  \* the email section was rendered by the last run
    displayed,      \* the messages displayed by this run, in order
    summary,        \* the outcome of run_agent3 in this run
    lookups,        \* the calls of run_agent1 in this run, in order
    agent1_returned,\* some call of run_agent1 returned in this session
    agent2_call     \* the call of run_agent2 in this run

\* the state of send_mail
mailVars == <<mail_pc, mail_app_pass, mail_args, app_pass, prompts, receivers,
              ans, send_attempts, dispatched, mail_ret>>

\* the state of the other operations, which get_top_researchers leaves alone:
\* the state of analyze_paper
paperVars == <<paper_pc, gemini_api_key, paper_text, model_calls, response, paper_ret>>

\* the state of a session of app.py
appVars == <<app_pc, button, topic_input, uploaded, receiver_input, agent_result,
             topic, email_section, displayed, summary, lookups, agent1_returned,
             agent2_call>>

otherVars == <<mailVars, paperVars, appVars>>

vars == <<serp_api_key, search_calls, pc, results, paper_idx, author_idx, emails_found,
          authors_data, top_k, ranked, table_rows, ret, otherVars>>

-----------------------------------------------------------------------------
(* Bounds of the model *)

MaxPapers == 2      \* papers in one search response
MaxMentions == 3    \* author mentions in one search response, over all papers
MaxReceivers == 3   \* entries of a recipient list

-----------------------------------------------------------------------------
(* Python values *)

None == "None"

Get(d, k) == IF k \in DOMAIN d THEN d[k] ELSE None

\* `a or b` on optional strings: the first truthy operand, else the last
Truthy(s) == s # None /\ s # ""
Or(a, b) == IF Truthy(a) THEN a ELSE b

IsSpace(c) == c \in {" ", "\n", "\t"}

RECURSIVE LStrip(_)
LStrip(s) == IF s # <<>> /\ IsSpace(Head(s)) THEN LStrip(Tail(s)) ELSE s

RECURSIVE RStrip(_)
RStrip(s) ==
    IF s # <<>> /\ IsSpace(s[Len(s)]) THEN RStrip(SubSeq(s, 1, Len(s) - 1)) ELSE s

\* str.strip()
Strip(s) == RStrip(LStrip(s))

\* the characters of a name as one string
RECURSIVE Chars(_)
Chars(s) == IF s = <<>> THEN "" ELSE Head(s) \o Chars(Tail(s))

\* the range of a sequence
Range(s) == {s[n] : n \in 1..Len(s)}

-----------------------------------------------------------------------------
(* The address pattern *)

\* the addresses of the model, in the order sorted() gives them
AddressOrder == <<"ann@uni.edu", "bob@lab.org">>
Addresses == Range(AddressOrder)

\* tokens of a text that the pattern matches as a whole
IsAddress(tok) == tok \in Addresses

\* re.findall(pattern, text): the matches, in order, repetitions kept
FindAll(text) == SelectSeq(text, IsAddress)

-----------------------------------------------------------------------------
(* The search responses of the model *)

Ann == <<"A", "n", "n">>
AnnPadded == <<" ", "A", "n", "n", " ">>
Bob == <<"B", "o", "b">>
Cyd == <<"C", "y", "d">>
AlPadded == <<" ", "A", "l", " ">>

\* author dicts of publication_info.authors
AuthorMentions ==
    { [name |-> Ann],
      [name |-> AnnPadded, link |-> "http://scholar/ann",
       email |-> <<"bob@lab.org">>],
      [name |-> Bob, link |-> "", profile |-> "http://scholar/bob",
       email |-> <<"mail:", "bob@lab.org", "bob@lab.org">>],
      [name |-> Cyd, link |-> "http://scholar/cyd"],
      [name |-> AlPadded, email |-> <<"ann@uni.edu">>],
      [link |-> "http://scholar/x", email |-> <<"ann@uni.edu">>] }

\* the keys of an author dict whose value is a free text
TextKeys == {"email"}

\* the record-level fields of a paper, without its authors
PaperTexts ==
    { [snippet |-> <<"contact:", "ann@uni.edu", "or", "ann@uni.edu">>,
       title |-> <<"GNN">>],
      [title |-> <<"reach", "bob@lab.org">>] }

MakePaper(texts, authors) ==
    IF authors = <<>> THEN texts
    ELSE texts @@ ("publication_info" :> [authors |-> authors])

RECURSIVE SumTo(_, _)
SumTo(sizes, n) == IF n = 0 THEN 0 ELSE sizes[n] + SumTo(sizes, n - 1)

\* the ways to deal `total` author mentions to n papers
Splits(n, total) == {z \in [1..n -> 0..total] : SumTo(z, n) = total}

\* the response whose i-th paper has the fields texts[i] and the next sizes[i]
\* of the mentions
Response(texts, sizes, mentions) ==
    [i \in 1..Len(texts) |->
        MakePaper(texts[i],
                  SubSeq(mentions, SumTo(sizes, i - 1) + 1, SumTo(sizes, i)))]

\* the cutoffs tried for n authors: a negative one, none, some, all, too many
TopKs(n) == (0 - 1)..(n + 1)

-----------------------------------------------------------------------------
(* get_top_researchers: aggregation *)

\* paper.get("snippet", "") or ""
Snippet(paper) == IF "snippet" \in DOMAIN paper THEN paper.snippet ELSE <<>>

\* paper.get("publication_info", {}).get("authors", [])
Authors(paper) ==
    IF "publication_info" \in DOMAIN paper
       /\ "authors" \in DOMAIN paper.publication_info
    THEN paper.publication_info.authors
    ELSE <<>>

\* author.get("link") or author.get("profile") or None
ProfileLink(author) == Or(Or(Get(author, "link"), Get(author, "profile")), None)

\* `if not name: continue`
NoName(author) == "name" \notin DOMAIN author \/ author.name = <<>>

\* the matches in one value of an author dict
ValueMatches(key, v) ==
    IF key \in TextKeys THEN Range(FindAll(v))
    ELSE IF key = "name" THEN {}
    ELSE IF IsAddress(v) THEN {v} ELSE {}

\* the matches over author.values()
AuthorMatches(author) ==
    UNION {ValueMatches(key, author[key]) : key \in DOMAIN author}

HasKey(ad, name) == \E n \in 1..Len(ad) : ad[n].name = name
KeyIndex(ad, name) == CHOOSE n \in 1..Len(ad) : ad[n].name = name

Placeholder == "(profile not available)"

\* NewEntry with the count started at 1
NewEntryCountOne(name, profile_link) ==
    [name |-> name, count |-> 1,
     profile |-> IF Truthy(profile_link) THEN profile_link
                 ELSE "(profile not available)",
     emails |-> {}]

\* authors_data[name] = {"count": 0, "profile": ..., "emails": set()}
NewEntry(name, profile_link) ==
    [name |-> name, count |-> 0,
     profile |-> Or(profile_link, Placeholder), emails |-> {}]

\* WithEntry that also adopts the link of a later mention while the stored
\* profile is still the placeholder
WithEntryAdoptLater(ad, name, profile_link) ==
    IF \E n \in 1..Len(ad) : ad[n].name = name
    THEN [n \in 1..Len(ad) |->
            IF ad[n].name = name /\ ad[n].profile = "(profile not available)"
               /\ Truthy(profile_link)
            THEN [ad[n] EXCEPT !.profile = profile_link]
            ELSE ad[n]]
    ELSE Append(ad, [name |-> name, count |-> 0,
                     profile |-> IF Truthy(profile_link) THEN profile_link
                                 ELSE "(profile not available)",
                     emails |-> {}])

\* WithEntry that overwrites the profile with every later link
WithEntryLastWins(ad, name, profile_link) ==
    IF \E n \in 1..Len(ad) : ad[n].name = name
    THEN [n \in 1..Len(ad) |->
            IF ad[n].name = name /\ Truthy(profile_link)
            THEN [ad[n] EXCEPT !.profile = profile_link]
            ELSE ad[n]]
    ELSE Append(ad, [name |-> name, count |-> 0,
                     profile |-> IF Truthy(profile_link) THEN profile_link
                                 ELSE "(profile not available)",
                     emails |-> {}])

\* authors_data after `if name not in authors_data: ...`
WithEntry(ad, name, profile_link) ==
    IF HasKey(ad, name) THEN ad ELSE Append(ad, NewEntry(name, profile_link))

\* Tally with `count = 1` for `count += 1`
TallyAssignOne(entry, found, author) ==
    [entry EXCEPT !.count = 1,
                  !.emails = @ \cup Range(found) \cup AuthorMatches(author)]

\* Tally that rebinds the email set to this mention's matches
TallyReplaceEmails(entry, found, author) ==
    [entry EXCEPT !.count = @ + 1,
                  !.emails = Range(found) \cup AuthorMatches(author)]

\* count += 1 and the two email loops, on the entry of name
Tally(entry, found, author) ==
    [entry EXCEPT !.count = @ + 1,
                  !.emails = @ \cup Range(found) \cup AuthorMatches(author)]

\* ProcessAuthor with `len(name) < 2` for `len(name) <= 2`
ProcessAuthorShortNames(ad, author, found) ==
    IF NoName(author) THEN ad
    ELSE LET name == Strip(author.name) IN
         IF Len(name) < 2 THEN ad
         ELSE LET ad1 == WithEntry(ad, name, ProfileLink(author))
                  n == KeyIndex(ad1, name)
              IN [ad1 EXCEPT ![n] = Tally(ad1[n], found, author)]

\* ProcessAuthor with the length test on the name before strip()
ProcessAuthorLenBeforeStrip(ad, author, found) ==
    IF NoName(author) THEN ad
    ELSE IF Len(author.name) <= 2 THEN ad
    ELSE LET name == Strip(author.name)
             ad1 == WithEntry(ad, name, ProfileLink(author))
             n == KeyIndex(ad1, name)
         IN [ad1 EXCEPT ![n] = Tally(ad1[n], found, author)]

\* one iteration of `for author in authors`
ProcessAuthor(ad, author, found) ==
    IF NoName(author) THEN ad
    ELSE LET name == Strip(author.name) IN
         IF Len(name) <= 2 THEN ad
         ELSE LET ad1 == WithEntry(ad, name, ProfileLink(author))
                  n == KeyIndex(ad1, name)
              IN [ad1 EXCEPT ![n] = Tally(ad1[n], found, author)]

\* authors_data after the inner loop over authors[from..], from ad
RECURSIVE AggregateAuthors(_, _, _, _)
AggregateAuthors(ad, authors, from, found) ==
    IF from > Len(authors) THEN ad
    ELSE AggregateAuthors(ProcessAuthor(ad, authors[from], found),
                          authors, from + 1, found)

\* authors_data after the outer loop over papers[from..], from ad
RECURSIVE AggregatePapers(_, _, _)
AggregatePapers(ad, papers, from) ==
    IF from > Len(papers) THEN ad
    ELSE AggregatePapers(
             AggregateAuthors(ad, Authors(papers[from]), 1,
                              FindAll(Snippet(papers[from]))),
             papers, from + 1)

\* authors_data after both loops of one call on the response papers
Aggregate(papers) == AggregatePapers(<<>>, papers, 1)

-----------------------------------------------------------------------------
(* get_top_researchers: ranking and report *)

Min(a, b) == IF a <= b THEN a ELSE b
Max(a, b) == IF a >= b THEN a ELSE b

\* InsertByCount that places x before the items of the same count
InsertByCountBeforeTies(sorted, x) ==
    LET n == Cardinality({m \in 1..Len(sorted) : sorted[m].count > x.count})
    IN SubSeq(sorted, 1, n) \o <<x>> \o SubSeq(sorted, n + 1, Len(sorted))

\* x placed behind every item whose count is at least x.count
InsertByCount(sorted, x) ==
    LET n == Cardinality({m \in 1..Len(sorted) : sorted[m].count >= x.count})
    IN SubSeq(sorted, 1, n) \o <<x>> \o SubSeq(sorted, n + 1, Len(sorted))

\* sorted(items, key=count, reverse=True): descending and stable
RECURSIVE SortedByCount(_)
SortedByCount(items) ==
    IF items = <<>> THEN <<>>
    ELSE InsertByCount(SortedByCount(SubSeq(items, 1, Len(items) - 1)),
                       items[Len(items)])

\* s[:k + 1]
SliceToInclusive(s, k) ==
    IF k + 1 >= 0 THEN SubSeq(s, 1, Min(k + 1, Len(s)))
    ELSE SubSeq(s, 1, Max(Len(s) + k + 1, 0))

\* s[:k]
SliceTo(s, k) ==
    IF k >= 0 THEN SubSeq(s, 1, Min(k, Len(s)))
    ELSE SubSeq(s, 1, Max(Len(s) + k, 0))

\* sorted(emails)
SortedEmails(emails) == SelectSeq(AddressOrder, LAMBDA a : a \in emails)

\* sep.join(strs)
RECURSIVE Join(_, _)
Join(sep, strs) ==
    IF strs = <<>> THEN ""
    ELSE IF Len(strs) = 1 THEN strs[1]
    ELSE strs[1] \o sep \o Join(sep, Tail(strs))

NotFound == "(not found)"

\* EmailsList over sorted(..., reverse=True)
EmailsListDescending(emails) ==
    IF emails # {}
    THEN Join(", ", [i \in 1..Len(SortedEmails(emails)) |->
                        SortedEmails(emails)[Len(SortedEmails(emails)) + 1 - i]])
    ELSE "(not found)"

\* ", ".join(sorted(info["emails"])) if info["emails"] else "(not found)"
EmailsList(emails) ==
    IF emails # {} THEN Join(", ", SortedEmails(emails)) ELSE NotFound

\* the fields of row i, for the i-th ranked entry
RenderRow(i, entry) ==
    [rank |-> i, name |-> entry.name,
     emails_list |-> EmailsList(entry.emails), profile |-> entry.profile]

\* f"| {i} | {name} | {emails_list} | {profile} |\n"
RowLine(row) ==
    "| " \o ToString(row.rank) \o " | " \o Chars(row.name) \o " | "
         \o row.emails_list \o " | " \o row.profile \o " |\n"

TableHeader ==
    "| Rank | Name | Emails (found) | Profile Link |\n"
        \o "|------|------|----------------|--------------|\n"

RenderRows(entries) == [i \in 1..Len(entries) |-> RenderRow(i, entries[i])]

MarkdownTable(rows) ==
    TableHeader \o Join("", [i \in 1..Len(rows) |-> RowLine(rows[i])])

-----------------------------------------------------------------------------
(* get_top_researchers as a state machine *)

\* analyze_paper is not the call modelled
PaperOff ==
    /\ paper_pc = "off"
    /\ gemini_api_key = FALSE
    /\ paper_text = <<>>
    /\ model_calls = 0
    /\ response = [kind |-> "none"]
    /\ paper_ret = <<>>

\* no call of run_agent3 in this run
NoSummary == [outcome |-> "none", text |-> <<>>]

\* no call of run_agent2 in this run
NoAgent2Call ==
    [made |-> FALSE, input |-> <<>>, receivers |-> <<>>, agent_result |-> "None",
     after_lookup |-> FALSE]

\* no session of app.py is modelled
AppOff ==
    /\ app_pc = "off"
    /\ button = "none"
    /\ topic_input = <<>>
    /\ uploaded = FALSE
    /\ receiver_input = <<>>
    /\ agent_result = None
    /\ topic = <<>>
    /\ email_section = FALSE
    /\ displayed = <<>>
    /\ summary = NoSummary
    /\ lookups = <<>>
    /\ agent1_returned = FALSE
    /\ agent2_call = NoAgent2Call

\* send_mail is not the call modelled
MailOff ==
    /\ mail_pc = "off"
    /\ mail_app_pass = FALSE
    /\ mail_args = <<>>
    /\ app_pass = ""
    /\ prompts = 0
    /\ receivers = <<>>
    /\ ans = <<>>
    /\ send_attempts = 0
    /\ dispatched = <<>>
    /\ mail_ret = ""

Init ==
    /\ MailOff
    /\ PaperOff
    /\ AppOff
    /\ serp_api_key \in BOOLEAN
    /\ search_calls = 0
    /\ pc = "start"
    /\ results = <<>>
    /\ paper_idx = 0
    /\ author_idx = 0
    /\ emails_found = <<>>
    /\ authors_data = <<>>
    /\ top_k = 3
    /\ ranked = <<>>
    /\ table_rows = <<>>
    /\ ret = ""

\* the key is not set: the function returns before the search
MissingKey ==
    /\ pc = "start"
    /\ ~serp_api_key
    /\ pc' = "done"
    /\ ret' = "ERROR: SERPAPI_KEY not found in environment variables."
    /\ UNCHANGED <<serp_api_key, search_calls, results, paper_idx, author_idx,
                   emails_found, authors_data, top_k, ranked, table_rows>>
    /\ UNCHANGED otherVars

\* the search request is made and the provider fails: the exception leaves
\* the function
SearchRaises ==
    /\ pc = "start"
    /\ serp_api_key
    /\ search_calls' = search_calls + 1
    /\ pc' = "raised"
    /\ UNCHANGED <<serp_api_key, results, paper_idx, author_idx, emails_found,
                   authors_data, top_k, ranked, table_rows, ret>>
    /\ UNCHANGED otherVars

\* the search request is made and answers r
Search ==
    /\ pc = "start"
    /\ serp_api_key
    /\ search_calls' = search_calls + 1
    /\ \E n \in 0..MaxPapers, total \in 0..MaxMentions :
       \E texts \in [1..n -> PaperTexts], sizes \in Splits(n, total),
          mentions \in [1..total -> AuthorMentions] :
          LET r == Response(texts, sizes, mentions) IN
          /\ results' = r
          /\ IF r = <<>>
             THEN pc' = "done" /\ ret' = "No results found."
             ELSE pc' = "loop" /\ ret' = ret
    /\ authors_data' = <<>>
    /\ UNCHANGED <<serp_api_key, paper_idx, author_idx, emails_found, top_k,
                   ranked, table_rows>>
    /\ UNCHANGED otherVars

\* the head of one iteration of `for paper in results`
NextPaper ==
    /\ pc = "loop"
    /\ paper_idx < Len(results)
    /\ paper_idx' = paper_idx + 1
    /\ emails_found' = FindAll(Snippet(results[paper_idx + 1]))
    /\ author_idx' = 1
    /\ pc' = IF Authors(results[paper_idx + 1]) = <<>> THEN "loop" ELSE "authors"
    /\ UNCHANGED <<serp_api_key, search_calls, results, authors_data, top_k,
                   ranked, table_rows, ret>>
    /\ UNCHANGED otherVars

\* one iteration of `for author in authors`
NextAuthor ==
    /\ pc = "authors"
    /\ LET authors == Authors(results[paper_idx]) IN
          /\ authors_data' = ProcessAuthor(authors_data, authors[author_idx],
                                           emails_found)
          /\ author_idx' = author_idx + 1
          /\ pc' = IF author_idx = Len(authors) THEN "loop" ELSE "authors"
    /\ UNCHANGED <<serp_api_key, search_calls, results, paper_idx, emails_found,
                   top_k, ranked, table_rows, ret>>
    /\ UNCHANGED otherVars

\* NoAuthors that returns the empty string
NoAuthorsEmptyString ==
    /\ pc = "loop"
    /\ paper_idx = Len(results)
    /\ authors_data = <<>>
    /\ pc' = "done"
    /\ ret' = ""
    /\ UNCHANGED <<serp_api_key, search_calls, results, paper_idx, author_idx,
                   emails_found, authors_data, top_k, ranked, table_rows>>
    /\ UNCHANGED otherVars

\* `if not authors_data` after the loops
NoAuthors ==
    /\ pc = "loop"
    /\ paper_idx = Len(results)
    /\ authors_data = <<>>
    /\ pc' = "done"
    /\ ret' = "No authors found."
    /\ UNCHANGED <<serp_api_key, search_calls, results, paper_idx, author_idx,
                   emails_found, authors_data, top_k, ranked, table_rows>>
    /\ UNCHANGED otherVars

\* the ranking, the table and the return; the parameter top_k is drawn here,
\* where it is first read
Rank ==
    /\ pc = "loop"
    /\ paper_idx = Len(results)
    /\ authors_data # <<>>
    /\ \E k \in TopKs(Len(authors_data)) :
          /\ top_k' = k
          /\ ranked' = SliceTo(SortedByCount(authors_data), k)
    /\ table_rows' = RenderRows(ranked')
    /\ ret' = MarkdownTable(table_rows')
    /\ pc' = "done"
    /\ UNCHANGED <<serp_api_key, search_calls, results, paper_idx, author_idx,
                   emails_found, authors_data>>
    /\ UNCHANGED otherVars

Next ==
    \/ MissingKey
    \/ SearchRaises
    \/ Search
    \/ NextPaper
    \/ NextAuthor
    \/ NoAuthors
    \/ Rank

Spec == Init /\ [][Next]_vars

-----------------------------------------------------------------------------
(* get_top_researchers over responses that vary the author names *)

Blank == <<" ", " ">>
Al == <<"A", "l">>

\* author dicts with no name, an empty name, a blank name, names of length 2
\* and names of length 3, bare and padded
NameMentions ==
    { [email |-> <<"ann@uni.edu">>],
      [name |-> <<>>, email |-> <<"ann@uni.edu">>],
      [name |-> Blank, link |-> "http://scholar/blank"],
      [name |-> Al, email |-> <<"ann@uni.edu">>],
      [name |-> AlPadded, link |-> "http://scholar/al"],
      [name |-> Ann],
      [name |-> AnnPadded, email |-> <<"ann@uni.edu">>] }

NameTexts == { [snippet |-> <<"bob@lab.org">>, title |-> <<"GNN">>] }

\* the search request is made and answers a response over NameMentions
SearchNames ==
    /\ pc = "start"
    /\ serp_api_key
    /\ search_calls' = search_calls + 1
    /\ \E n \in 0..MaxPapers, total \in 0..MaxMentions :
       \E texts \in [1..n -> NameTexts], sizes \in Splits(n, total),
          mentions \in [1..total -> NameMentions] :
          LET r == Response(texts, sizes, mentions) IN
          /\ results' = r
          /\ IF r = <<>>
             THEN pc' = "done" /\ ret' = "No results found."
             ELSE pc' = "loop" /\ ret' = ret
    /\ authors_data' = <<>>
    /\ UNCHANGED <<serp_api_key, paper_idx, author_idx, emails_found, top_k,
                   ranked, table_rows>>
    /\ UNCHANGED otherVars

NextNames ==
    \/ MissingKey
    \/ SearchRaises
    \/ SearchNames
    \/ NextPaper
    \/ NextAuthor
    \/ NoAuthors
    \/ Rank

SpecNames == Init /\ [][NextNames]_vars

-----------------------------------------------------------------------------
(* Vocabulary of the properties *)

\* the (record, author-mention) pairs of the response
Positions ==
    UNION { {<<i, j>> : j \in 1..Len(Authors(results[i]))} : i \in 1..Len(results) }

MentionAt(p) == Authors(results[p[1]])[p[2]]

\* input order of the pairs
Before(p, q) == p[1] < q[1] \/ (p[1] = q[1] /\ p[2] < q[2])

First(ps) == CHOOSE p \in ps : \A q \in ps : p = q \/ Before(p, q)

\* the pairs whose iteration of the inner loop is over
Processed ==
    {p \in Positions : p[1] < paper_idx \/ (p[1] = paper_idx /\ p[2] < author_idx)}

\* the name normalizer rejects: missing or empty name, or trimmed length <= 2
Rejects(author) ==
    \/ "name" \notin DOMAIN author
    \/ Len(author.name) = 0
    \/ Len(Strip(author.name)) <= 2

\* the pairs that mention name
MentionsOf(name) ==
    {p \in Positions : ~Rejects(MentionAt(p)) /\ Strip(MentionAt(p).name) = name}

\* the records that mention name
RecordsOf(name) == {p[1] : p \in MentionsOf(name)}

\* the aggregation loop has just ended
LoopDone ==
    /\ pc = "loop"
    /\ paper_idx = Len(results)

RECURSIVE SumCounts(_)
SumCounts(ad) == IF ad = <<>> THEN 0 ELSE Head(ad).count + SumCounts(Tail(ad))

Entries == 1..Len(authors_data)

-----------------------------------------------------------------------------
(* Properties of the aggregation *)

\* C1: after the aggregation loop the counts of all authors sum to the number
\* of (record, author-mention) pairs minus the pairs the normalizer rejected.
C1_CountsSumToAcceptedMentions ==
    LoopDone =>
        SumCounts(authors_data)
            = Cardinality(Positions)
              - Cardinality({p \in Positions : Rejects(MentionAt(p))})

\* a finished aggregation with rejected mentions and several accepted ones
C1_Witness ==
    /\ LoopDone
    /\ \E p \in Positions : Rejects(MentionAt(p))
    /\ SumCounts(authors_data) >= 2

\* C2 as stated: after aggregation the count of every name is the number of
\* distinct records that mention the name.
C2_CountIsDistinctRecords ==
    LoopDone =>
        \A n \in Entries :
            authors_data[n].count = Cardinality(RecordsOf(authors_data[n].name))

\* C2 amended: after aggregation the names are the accepted names of the
\* response and the count of every name is the number of accepted mentions of
\* the name, which is the number of distinct records only when no record
\* mentions the name twice.
C2_CountIsMentions ==
    LoopDone =>
        /\ {authors_data[n].name : n \in Entries}
              = {Strip(MentionAt(p).name) :
                    p \in {q \in Positions : ~Rejects(MentionAt(q))}}
        /\ \A n \in Entries :
              LET name == authors_data[n].name IN
              /\ authors_data[n].count = Cardinality(MentionsOf(name))
              /\ (authors_data[n].count = Cardinality(RecordsOf(name)))
                    <=> (\A p, q \in MentionsOf(name) : p[1] = q[1] => p = q)

\* a finished aggregation where one record mentions a name twice
C2_Witness ==
    /\ LoopDone
    /\ \E n \in Entries :
          \E p, q \in MentionsOf(authors_data[n].name) : p[1] = q[1] /\ p # q

\* the mention carries a link
Carries(p) == Truthy(ProfileLink(MentionAt(p)))

\* C3 as stated: after aggregation the profile of every name is the first
\* non-empty link among all mentions of the name, the placeholder only if no
\* mention carries a link.
C3_ProfileIsFirstNonEmptyLink ==
    LoopDone =>
        \A n \in Entries :
            LET linked == {p \in MentionsOf(authors_data[n].name) : Carries(p)} IN
            authors_data[n].profile
                = IF linked = {} THEN "(profile not available)"
                  ELSE ProfileLink(MentionAt(First(linked)))

\* C3 amended: after aggregation the profile of every name is the link of the
\* first mention of the name, the placeholder if that mention carries none;
\* the link of a later mention is not adopted.
C3_ProfileIsLinkOfFirstMention ==
    LoopDone =>
        \A n \in Entries :
            LET first == First(MentionsOf(authors_data[n].name)) IN
            authors_data[n].profile
                = IF Carries(first) THEN ProfileLink(MentionAt(first))
                  ELSE "(profile not available)"

\* a finished aggregation where the first mention of a name has no link and a
\* later one has
C3_Witness ==
    /\ LoopDone
    /\ \E n \in Entries :
          LET ps == MentionsOf(authors_data[n].name) IN
          /\ ~Carries(First(ps))
          /\ \E p \in ps : Carries(p)

\* C4: once a name has a record, no step changes the profile of that record,
\* whatever link a later mention of the name carries.
C4_FirstWriteWins ==
    [][\A n \in Entries :
          /\ n <= Len(authors_data')
          /\ authors_data'[n].name = authors_data[n].name
          /\ authors_data'[n].profile = authors_data[n].profile]_vars

\* a later mention of a recorded name was processed and carries a link that is
\* not the stored profile
C4_Witness ==
    \E n \in Entries :
        LET ps == MentionsOf(authors_data[n].name) IN
        \E p \in ps \cap Processed :
            /\ p # First(ps)
            /\ Carries(p)
            /\ ProfileLink(MentionAt(p)) # authors_data[n].profile

\* the matches in the string-valued fields of a record
RecordMatches(paper) ==
    UNION {Range(FindAll(paper[k])) : k \in DOMAIN paper \ {"publication_info"}}

\* the matches in the snippet of a record
SnippetMatches(paper) ==
    IF "snippet" \in DOMAIN paper THEN Range(FindAll(paper.snippet)) ELSE {}

\* C5 as stated: after aggregation the emails of every name are the matches
\* in every string-valued field of every record that mentions the name and in
\* every string-valued field of those mentions.
C5_EmailsFromAllRecordFields ==
    LoopDone =>
        \A n \in Entries :
            authors_data[n].emails
                = UNION { RecordMatches(results[p[1]]) \cup AuthorMatches(MentionAt(p))
                          : p \in MentionsOf(authors_data[n].name) }

\* C5 amended: after aggregation the emails of every name are the matches in
\* the snippet of every record that mentions the name and in every
\* string-valued field of those mentions; no other field of a record is
\* scanned.
C5_EmailsFromSnippetAndMention ==
    LoopDone =>
        \A n \in Entries :
            authors_data[n].emails
                = UNION { SnippetMatches(results[p[1]]) \cup AuthorMatches(MentionAt(p))
                          : p \in MentionsOf(authors_data[n].name) }

\* a finished aggregation where a record that mentions a name has an address
\* outside its snippet that the name did not get, and the name has addresses
C5_Witness ==
    /\ LoopDone
    /\ \E n \in Entries :
          /\ authors_data[n].emails # {}
          /\ \E p \in MentionsOf(authors_data[n].name) :
                ~(RecordMatches(results[p[1]]) \subseteq authors_data[n].emails)

\* the count of name in the mapping ad, 0 if absent
CountOf(ad, name) ==
    IF \E n \in 1..Len(ad) : ad[n].name = name
    THEN ad[CHOOSE n \in 1..Len(ad) : ad[n].name = name].count
    ELSE 0

\* C6: no step removes a name, lowers a count or removes an email; the step of
\* an accepted mention raises the count of its name by 1 and leaves the other
\* records as they are; the step of a rejected mention changes nothing.
C6_MentionStepMonotone ==
    [][/\ Len(authors_data') >= Len(authors_data)
       /\ \A n \in Entries :
             /\ authors_data'[n].name = authors_data[n].name
             /\ authors_data'[n].count >= authors_data[n].count
             /\ authors_data[n].emails \subseteq authors_data'[n].emails
       /\ pc = "authors" =>
             LET author == Authors(results[paper_idx])[author_idx] IN
             IF Rejects(author) THEN authors_data' = authors_data
             ELSE LET name == Strip(author.name) IN
                  /\ CountOf(authors_data', name) = CountOf(authors_data, name) + 1
                  /\ \A n \in Entries :
                        authors_data[n].name # name
                            => authors_data'[n] = authors_data[n]
                  /\ \A m \in 1..Len(authors_data') :
                        m > Len(authors_data) => authors_data'[m].name = name
                  /\ Len(authors_data') <= Len(authors_data) + 1]_vars

\* a recorded name was mentioned again while another name has a record
C6_Witness ==
    /\ pc \in {"authors", "loop"}
    /\ Len(authors_data) >= 2
    /\ \E n \in Entries : authors_data[n].count >= 2

\* a mapping as a function of its names
AsMap(ad) ==
    [name \in {ad[n].name : n \in 1..Len(ad)} |->
        LET e == ad[CHOOSE n \in 1..Len(ad) : ad[n].name = name]
        IN [count |-> e.count, emails |-> e.emails]]

\* two mappings merged: counts added, email sets united
MergeMaps(a, b) ==
    [name \in DOMAIN a \cup DOMAIN b |->
        [count |-> (IF name \in DOMAIN a THEN a[name].count ELSE 0)
                   + (IF name \in DOMAIN b THEN b[name].count ELSE 0),
         emails |-> (IF name \in DOMAIN a THEN a[name].emails ELSE {})
                    \cup (IF name \in DOMAIN b THEN b[name].emails ELSE {})]]

\* C7: the mapping of a response merged with itself is the mapping of the
\* response concatenated with itself: same names, counts doubled, same emails.
C7_MergeIsAggregateOfConcat ==
    LoopDone =>
        LET once == AsMap(authors_data)
            twice == AsMap(Aggregate(results \o results))
        IN /\ authors_data = Aggregate(results)
           /\ MergeMaps(once, once) = twice
           /\ DOMAIN twice = DOMAIN once
           /\ \A name \in DOMAIN once :
                 /\ twice[name].count = 2 * once[name].count
                 /\ twice[name].emails = once[name].emails

\* a finished aggregation of several names, one of them with emails and one
\* mentioned more than once
C7_Witness ==
    /\ LoopDone
    /\ Len(authors_data) >= 2
    /\ \E n \in Entries : authors_data[n].emails # {}
    /\ \E n \in Entries : authors_data[n].count >= 2

-----------------------------------------------------------------------------
(* Properties of the ranking and the report *)

\* the call returned a table
Reported == pc = "done" /\ authors_data # <<>>

\* the rows of the table that show name
RowsOf(name) == {i \in 1..Len(table_rows) : table_rows[i].name = name}

\* C8: of two authors with the same count, the one whose name comes first in
\* the response has the earlier row when both have one, and is the one with a
\* row when the cutoff falls between them.
C8_TiesKeepInputOrder ==
    Reported =>
        \A a, b \in Entries :
            ( /\ a # b
              /\ authors_data[a].count = authors_data[b].count
              /\ RowsOf(authors_data[b].name) # {}
              /\ Before(First(MentionsOf(authors_data[a].name)),
                        First(MentionsOf(authors_data[b].name))) )
            => \E i \in RowsOf(authors_data[a].name) :
                  \A j \in RowsOf(authors_data[b].name) : i < j

\* a table of three authors of the same count, cut after the second
C8_Witness ==
    /\ Reported
    /\ \E a, b, c \in Entries :
          /\ authors_data[a].count = authors_data[b].count
          /\ authors_data[b].count = authors_data[c].count
          /\ \E i \in RowsOf(authors_data[a].name) :
                \E j \in RowsOf(authors_data[b].name) : i < j
          /\ RowsOf(authors_data[c].name) = {}

\* C9: for n >= 1 authors and a cutoff K >= 0 the table has min(K, n) rows of
\* distinct authors in non-increasing count order, no author without a row has
\* a larger count than an author with one, K = 0 gives the two header lines
\* alone and K > n gives a row to every author.
C9_TopKRows ==
    (Reported /\ top_k >= 0) =>
        LET n == Len(authors_data)
            rows == 1..Len(table_rows)
            shown == {table_rows[i].name : i \in rows}
        IN /\ Len(table_rows) = Min(top_k, n)
           /\ \A i, j \in rows :
                 i < j => /\ table_rows[i].name # table_rows[j].name
                          /\ CountOf(authors_data, table_rows[i].name)
                                >= CountOf(authors_data, table_rows[j].name)
           /\ shown \subseteq {authors_data[e].name : e \in Entries}
           /\ \A e \in Entries : \A i \in rows :
                 authors_data[e].name \notin shown
                    => authors_data[e].count
                          <= CountOf(authors_data, table_rows[i].name)
           /\ top_k = 0 =>
                 ret = "| Rank | Name | Emails (found) | Profile Link |\n"
                          \o "|------|------|----------------|--------------|\n"
           /\ top_k > n => shown = {authors_data[e].name : e \in Entries}

\* a table cut between authors of different counts
C9_Witness ==
    /\ Reported
    /\ top_k >= 1
    /\ top_k < Len(authors_data)
    /\ Len(table_rows) = top_k
    /\ \E a, b \in Entries : authors_data[a].count > authors_data[b].count

\* a comes before b in sorted order
Precedes(a, b) ==
    \E i, j \in 1..Len(AddressOrder) :
        i < j /\ AddressOrder[i] = a /\ AddressOrder[j] = b

\* the ways to list the set emails once each in sorted order
SortedListings(emails) ==
    {l \in [1..Cardinality(emails) -> emails] :
        \A i, j \in 1..Cardinality(emails) : i < j => Precedes(l[i], l[j])}

\* C10: row i of the report shows rank i, the name of the i-th ranked author,
\* that author's emails once each, sorted and joined by ", ", or "(not found)"
\* exactly when the author has none, and the stored profile link.
C10_RowShowsAuthor ==
    Reported =>
        /\ Len(table_rows) = Len(ranked)
        /\ \A i \in 1..Len(table_rows) :
              LET row == table_rows[i] IN
              \E e \in Entries :
                 /\ authors_data[e] = ranked[i]
                 /\ row.rank = i
                 /\ row.name = authors_data[e].name
                 /\ row.profile = authors_data[e].profile
                 /\ (row.emails_list = "(not found)")
                       <=> (authors_data[e].emails = {})
                 /\ authors_data[e].emails # {} =>
                       \E l \in SortedListings(authors_data[e].emails) :
                          row.emails_list = Join(", ", l)
        /\ ret = TableHeader
                    \o Join("", [i \in 1..Len(table_rows) |->
                          "| " \o ToString(i) \o " | "
                               \o Chars(table_rows[i].name) \o " | "
                               \o table_rows[i].emails_list \o " | "
                               \o table_rows[i].profile \o " |\n"])

\* a table with a row of two emails and a row without emails
C10_Witness ==
    /\ Reported
    /\ \E i, j \in 1..Len(table_rows) :
          /\ table_rows[i].emails_list = "ann@uni.edu, bob@lab.org"
          /\ table_rows[j].emails_list = "(not found)"

-----------------------------------------------------------------------------
(* Properties of the name normalizer and of the "no data" results *)

\* the processed pairs that mention name
ProcessedMentionsOf(name) == MentionsOf(name) \cap Processed

\* C11: a mention whose name is missing, empty or of trimmed length <= 2
\* leaves no trace, in however many records it stands: at every step the
\* names of the mapping are the trimmed names of length >= 3 processed so far,
\* and the count and the emails of a name come from its accepted mentions
\* alone.
C11_RejectedMentionsLeaveNoTrace ==
    /\ {authors_data[n].name : n \in Entries}
          = {Strip(MentionAt(p).name) :
                p \in {q \in Processed : ~Rejects(MentionAt(q))}}
    /\ \A n \in Entries :
          LET name == authors_data[n].name IN
          /\ Len(name) >= 3
          /\ name[1] # " " /\ name[Len(name)] # " "
          /\ authors_data[n].count = Cardinality(ProcessedMentionsOf(name))
          /\ authors_data[n].emails
                = UNION { SnippetMatches(results[p[1]])
                              \cup AuthorMatches(MentionAt(p))
                          : p \in ProcessedMentionsOf(name) }

\* a finished aggregation where a name of length 2 stands in two records, one
\* of them padded, next to an accepted name
C11_Witness ==
    /\ LoopDone
    /\ Len(authors_data) = 1
    /\ \E p, q \in Positions :
          /\ p[1] # q[1]
          /\ MentionAt(p) \in NameMentions /\ MentionAt(q) \in NameMentions
          /\ "name" \in DOMAIN MentionAt(p) /\ MentionAt(p).name = Al
          /\ "name" \in DOMAIN MentionAt(q) /\ MentionAt(q).name = AlPadded

\* C13: a call that got a response returns a non-empty string: the sentence
\* "No results found." exactly for an empty result list, the sentence
\* "No authors found." exactly when no mention of a non-empty list is
\* accepted, and the table otherwise; an exception leaves the call only
\* before any response was received.
C13_NoDataIsAValue ==
    /\ (pc = "done" /\ search_calls > 0) =>
          /\ ret # ""
          /\ (ret = "No results found.") <=> (results = <<>>)
          /\ (ret = "No authors found.")
                <=> (results # <<>> /\ \A p \in Positions : Rejects(MentionAt(p)))
          /\ (results # <<>> /\ \E p \in Positions : ~Rejects(MentionAt(p)))
                => /\ ret = MarkdownTable(table_rows)
                   /\ ret \notin {"No results found.", "No authors found."}
    /\ pc = "raised" => (results = <<>> /\ paper_idx = 0 /\ ret = "")

\* a call returned "No authors found." for a response with mentions
C13_Witness ==
    /\ pc = "done"
    /\ ret = "No authors found."
    /\ Positions # {}

-----------------------------------------------------------------------------
(* send_mail *)

\* get_top_researchers is not the call modelled
AggOff ==
    /\ serp_api_key = FALSE
    /\ search_calls = 0
    /\ pc = "off"
    /\ results = <<>>
    /\ paper_idx = 0
    /\ author_idx = 0
    /\ emails_found = <<>>
    /\ authors_data = <<>>
    /\ top_k = 3
    /\ ranked = <<>>
    /\ table_rows = <<>>
    /\ ret = ""

aggVars == <<serp_api_key, search_calls, pc, results, paper_idx, author_idx,
             emails_found, authors_data, top_k, ranked, table_rows, ret>>

\* the hard-coded fallback recipient list
FallbackReceivers == <<"rana.sayak.2001@gmail.com">>

\* the default message, line by line: it starts and ends with a newline
DefaultBody ==
    <<"\n",
      "Hi,", "\n",
      "\n",
      "This is an automated message from the Research Connect app.", "\n",
      "\n",
      "We found the top researchers for your requested topic.", "\n",
      "Please find their details in the attached summary.", "\n",
      "\n",
      "Best regards,", "\n",
      "Sayak Rana", "\n">>

\* the bodies passed as ans: empty, blank, written
MailBodies == { <<>>, <<" ", "\n">>, <<"H", "i">> }

RecipientPool == {"alice@gmail.com", "bob@iitk.ac.in"}

RecipientLists == UNION {[1..n -> RecipientPool] : n \in 0..MaxReceivers}

\* the arguments of a call: ans and receivers are each passed or left None
MailArgs ==
    { a @@ r : a \in {<<>>} \cup {[ans |-> b] : b \in MailBodies},
               r \in {<<>>} \cup {[receivers |-> l] : l \in RecipientLists} }

\* EffectiveReceivers without the fallback
EffectiveReceiversNoFallback(args) ==
    IF "receivers" \in DOMAIN args THEN args.receivers ELSE <<>>

\* receivers after `if not receivers: receivers = [...]`
EffectiveReceivers(args) ==
    IF "receivers" \in DOMAIN args /\ args.receivers # <<>>
    THEN args.receivers
    ELSE FallbackReceivers

\* ans after `if not ans or ans.strip() == "": ans = """..."""`
EffectiveBody(args) ==
    IF "ans" \notin DOMAIN args \/ args.ans = <<>> \/ Strip(args.ans) = <<>>
    THEN DefaultBody
    ELSE args.ans

\* f"Emails sent successfully to: {', '.join(receivers)}"
Acknowledgment(rs) == "Emails sent successfully to: " \o Join(", ", rs)

InitMail ==
    /\ AggOff
    /\ PaperOff
    /\ AppOff
    /\ mail_pc = "start"
    /\ mail_app_pass \in BOOLEAN
    /\ mail_args \in MailArgs
    /\ app_pass = ""
    /\ prompts = 0
    /\ receivers = <<>>
    /\ ans = <<>>
    /\ send_attempts = 0
    /\ dispatched = <<>>
    /\ mail_ret = ""

\* MAIL_APP_PASS is set: the defaults are applied and the SMTP client is built
MailWithPass ==
    /\ mail_pc = "start"
    /\ mail_app_pass
    /\ app_pass' = "MAIL_APP_PASS"
    /\ receivers' = EffectiveReceivers(mail_args)
    /\ ans' = EffectiveBody(mail_args)
    /\ mail_pc' = "loop"
    /\ UNCHANGED <<mail_app_pass, mail_args, prompts, send_attempts, dispatched,
                   mail_ret>>
    /\ UNCHANGED <<aggVars, paperVars, appVars>>

\* MAIL_APP_PASS is not set: getpass asks for the password
MailAskPass ==
    /\ mail_pc = "start"
    /\ ~mail_app_pass
    /\ prompts' = prompts + 1
    /\ mail_pc' = "prompt"
    /\ UNCHANGED <<mail_app_pass, mail_args, app_pass, receivers, ans,
                   send_attempts, dispatched, mail_ret>>
    /\ UNCHANGED <<aggVars, paperVars, appVars>>

\* getpass returns what was typed, possibly nothing; the defaults are applied
\* and the SMTP client is built
MailPassTyped ==
    /\ mail_pc = "prompt"
    /\ \E typed \in {"", "typed"} : app_pass' = typed
    /\ receivers' = EffectiveReceivers(mail_args)
    /\ ans' = EffectiveBody(mail_args)
    /\ mail_pc' = "loop"
    /\ UNCHANGED <<mail_app_pass, mail_args, prompts, send_attempts, dispatched,
                   mail_ret>>
    /\ UNCHANGED <<aggVars, paperVars, appVars>>

\* getpass has no input to read from: the exception leaves send_mail
MailPromptRaises ==
    /\ mail_pc = "prompt"
    /\ mail_pc' = "raised"
    /\ UNCHANGED <<mail_app_pass, mail_args, app_pass, prompts, receivers, ans,
                   send_attempts, dispatched, mail_ret>>
    /\ UNCHANGED <<aggVars, paperVars, appVars>>

\* MailSendRaises that logs the failure and goes on with the next recipient
MailSendRaisesContinue ==
    /\ mail_pc = "loop"
    /\ send_attempts < Len(receivers)
    /\ send_attempts' = send_attempts + 1
    /\ UNCHANGED <<mail_pc, mail_app_pass, mail_args, app_pass, prompts,
                   receivers, ans, dispatched, mail_ret>>
    /\ UNCHANGED <<aggVars, paperVars, appVars>>

\* one iteration of `for r in receivers`: yag.send accepts the message
MailSend ==
    /\ mail_pc = "loop"
    /\ send_attempts < Len(receivers)
    /\ send_attempts' = send_attempts + 1
    /\ dispatched' = Append(dispatched,
                            [to |-> receivers[send_attempts + 1], contents |-> ans])
    /\ UNCHANGED <<mail_pc, mail_app_pass, mail_args, app_pass, prompts,
                   receivers, ans, mail_ret>>
    /\ UNCHANGED <<aggVars, paperVars, appVars>>

\* one iteration of `for r in receivers`: yag.send raises, and the exception
\* leaves send_mail
MailSendRaises ==
    /\ mail_pc = "loop"
    /\ send_attempts < Len(receivers)
    /\ send_attempts' = send_attempts + 1
    /\ mail_pc' = "raised"
    /\ UNCHANGED <<mail_app_pass, mail_args, app_pass, prompts, receivers, ans,
                   dispatched, mail_ret>>
    /\ UNCHANGED <<aggVars, paperVars, appVars>>

\* the loop is over: the acknowledgment is returned
MailReturn ==
    /\ mail_pc = "loop"
    /\ send_attempts = Len(receivers)
    /\ mail_ret' = Acknowledgment(receivers)
    /\ mail_pc' = "done"
    /\ UNCHANGED <<mail_app_pass, mail_args, app_pass, prompts, receivers, ans,
                   send_attempts, dispatched>>
    /\ UNCHANGED <<aggVars, paperVars, appVars>>

NextMail ==
    \/ MailWithPass
    \/ MailAskPass
    \/ MailPassTyped
    \/ MailPromptRaises
    \/ MailSend
    \/ MailSendRaises
    \/ MailReturn

SpecMail == InitMail /\ [][NextMail]_vars

-----------------------------------------------------------------------------
(* analyze_paper *)

MaxWords == 6       \* words in the first line of a model reply

\* the returned strings, as texts
NoReadableText == <<"No readable text found in the uploaded paper.">>

KeyMissing == <<"Error: GEMINI_API_KEY missing.">>

NoClearTopic == <<"Could not extract a clear topic from the paper.">>

\* f"Error analyzing paper: {str(e)}"
ErrorAnalyzing(e) == <<"Error analyzing paper: ", e>>

TopicMarker == "**Main Research Topic:**"

\* f"**Main Research Topic:** {main_topic}", main_topic a sequence of characters
TopicSummary(main_topic) == <<TopicMarker, " ">> \o main_topic

\* re.sub(r'["\']', '', main_topic)
IsQuote(c) == c \in {"\"", "'"}

RemoveQuotes(s) == SelectSeq(s, LAMBDA c : ~IsQuote(c))

\* main_topic.split('\n')[0]
RECURSIVE FirstLine(_)
FirstLine(s) ==
    IF s = <<>> \/ Head(s) = "\n" THEN <<>> ELSE <<Head(s)>> \o FirstLine(Tail(s))

\* len(main_topic.split())
WordCount(s) ==
    Cardinality({i \in 1..Len(s) : ~IsSpace(s[i]) /\ (i = 1 \/ IsSpace(s[i - 1]))})

\* lines 406-411
CleanTopic(content) == Strip(FirstLine(RemoveQuotes(Strip(content))))

\* `main_topic and len(main_topic) > 3 and len(main_topic.split()) <= 5`
AcceptsTopic(main_topic) ==
    main_topic # <<>> /\ Len(main_topic) > 3 /\ WordCount(main_topic) <= 5

\* lines 406-416 for a reply with content
PaperReturn(content) ==
    IF AcceptsTopic(CleanTopic(content))
    THEN TopicSummary(CleanTopic(content))
    ELSE NoClearTopic

\* the extracted text of a PDF: none, or some
PdfTexts == { <<>>, <<"Graph", "networks", "learn">> }

\* the words of a reply
TopicWords == { <<"G", "N", "N">>, <<"n", "e", "t", "s">> }

RECURSIVE Phrase(_)
Phrase(ws) ==
    IF ws = <<>> THEN <<>>
    ELSE IF Len(ws) = 1 THEN Head(ws)
    ELSE Head(ws) \o <<" ">> \o Phrase(Tail(ws))

\* what a reply has before and after its first phrase
ReplyLeads == { <<>>, <<" ">>, <<"\"">> }

ReplyTails == { <<>>, <<"\n", "x">>, <<"'", " ">> }

NoResponse == [kind |-> "none"]

InitPaper ==
    /\ AggOff
    /\ MailOff
    /\ AppOff
    /\ paper_pc = "start"
    /\ gemini_api_key \in BOOLEAN
    /\ paper_text = <<>>
    /\ model_calls = 0
    /\ response = NoResponse
    /\ paper_ret = <<>>

\* extract_text_from_pdf returns; without text analyze_paper returns at once
PaperExtract ==
    /\ paper_pc = "start"
    /\ \E text \in PdfTexts :
        /\ paper_text' = text
        /\ paper_pc' = IF text = <<>> THEN "done" ELSE "key"
        /\ paper_ret' = IF text = <<>> THEN NoReadableText ELSE paper_ret
    /\ UNCHANGED <<gemini_api_key, model_calls, response>>
    /\ UNCHANGED <<aggVars, mailVars, appVars>>

\* extract_text_from_pdf raises (not a PDF): the call is outside the try
PaperExtractRaises ==
    /\ paper_pc = "start"
    /\ paper_pc' = "raised"
    /\ UNCHANGED <<gemini_api_key, paper_text, model_calls, response, paper_ret>>
    /\ UNCHANGED <<aggVars, mailVars, appVars>>

\* PaperMissingKey that leaves the missing key to the model call to report
PaperMissingKeyCallsModel ==
    /\ paper_pc = "key"
    /\ ~gemini_api_key
    /\ response' = [kind |-> "raises"]
    /\ paper_ret' = ErrorAnalyzing("API key not valid")
    /\ model_calls' = model_calls + 1
    /\ paper_pc' = "done"
    /\ UNCHANGED <<gemini_api_key, paper_text>>
    /\ UNCHANGED <<aggVars, mailVars, appVars>>

\* GEMINI_API_KEY is not set
PaperMissingKey ==
    /\ paper_pc = "key"
    /\ ~gemini_api_key
    /\ paper_ret' = KeyMissing
    /\ paper_pc' = "done"
    /\ UNCHANGED <<gemini_api_key, paper_text, model_calls, response>>
    /\ UNCHANGED <<aggVars, mailVars, appVars>>

\* the model replies with a text, which is cleaned and tested
PaperModelReplies ==
    /\ paper_pc = "key"
    /\ gemini_api_key
    /\ \E n \in 0..MaxWords :
       \E ws \in [1..n -> TopicWords], lead \in ReplyLeads, tail \in ReplyTails :
        /\ response' = [kind |-> "content", content |-> lead \o Phrase(ws) \o tail]
        /\ paper_ret' = PaperReturn(lead \o Phrase(ws) \o tail)
    /\ model_calls' = model_calls + 1
    /\ paper_pc' = "done"
    /\ UNCHANGED <<gemini_api_key, paper_text>>
    /\ UNCHANGED <<aggVars, mailVars, appVars>>

\* the model replies without content: None.strip() raises inside the try
PaperModelNoContent ==
    /\ paper_pc = "key"
    /\ gemini_api_key
    /\ response' = [kind |-> "nocontent"]
    /\ paper_ret' = ErrorAnalyzing("'NoneType' object has no attribute 'strip'")
    /\ model_calls' = model_calls + 1
    /\ paper_pc' = "done"
    /\ UNCHANGED <<gemini_api_key, paper_text>>
    /\ UNCHANGED <<aggVars, mailVars, appVars>>

\* PaperModelRaises without the except clause
PaperModelRaisesPropagates ==
    /\ paper_pc = "key"
    /\ gemini_api_key
    /\ response' = [kind |-> "raises"]
    /\ model_calls' = model_calls + 1
    /\ paper_pc' = "raised"
    /\ UNCHANGED <<gemini_api_key, paper_text, paper_ret>>
    /\ UNCHANGED <<aggVars, mailVars, appVars>>

\* the model call raises inside the try
PaperModelRaises ==
    /\ paper_pc = "key"
    /\ gemini_api_key
    /\ response' = [kind |-> "raises"]
    /\ paper_ret' = ErrorAnalyzing("model call failed")
    /\ model_calls' = model_calls + 1
    /\ paper_pc' = "done"
    /\ UNCHANGED <<gemini_api_key, paper_text>>
    /\ UNCHANGED <<aggVars, mailVars, appVars>>

NextPaperAnalysis ==
    \/ PaperExtract
    \/ PaperExtractRaises
    \/ PaperMissingKey
    \/ PaperModelReplies
    \/ PaperModelNoContent
    \/ PaperModelRaises

SpecPaper == InitPaper /\ [][NextPaperAnalysis]_vars

-----------------------------------------------------------------------------
(* app.py: one session; every interaction runs the script from the top *)

MaxInput == 3       \* characters typed in the receivers field

\* what the user types in the topic field: nothing, a blank, a topic
TopicInputs == { <<>>, <<" ">>, <<"G", "N", "N">>, <<"A", "I">> }

\* what run_agent1 returns: response.content, which may be None or empty
AgentResults == { None, "", "| Name | Email(s) | Profile Link |" }

Agent1Outcomes ==
    {[outcome |-> "returned", result |-> r] : r \in AgentResults}
        \cup {[outcome |-> "raised", result |-> None]}

\* the replies of the model behind the summaries of run_agent3
AppReplies ==
    { <<"G", "N", "N">>,
      <<"n", "e", "t", "s">>,
      <<"G", "N", "N", " ", "n", "e", "t", "s">> }

\* what run_agent3 does: analyze_paper returns one of its strings, or raises
Agent3Outcomes ==
    {[outcome |-> "returned", text |-> t] :
        t \in {NoReadableText, KeyMissing, NoClearTopic,
               ErrorAnalyzing("model call failed")}
              \cup {PaperReturn(c) : c \in AppReplies}}
        \cup {[outcome |-> "raised", text |-> <<>>]}

\* the characters of the receivers field
InputChars == {"a", "@", ",", "\n", " "}

\* a displayed element: which handler, which kind, and its text
Msg(by, kind, text) == [by |-> by, kind |-> kind, text |-> text]

\* re.split(r"[,\n]+", receiver_input)
IsSeparator(c) == c \in {",", "\n"}

RECURSIVE DropSeparators(_)
DropSeparators(s) ==
    IF s # <<>> /\ IsSeparator(Head(s)) THEN DropSeparators(Tail(s)) ELSE s

RECURSIVE SplitOnSeparators(_, _)
SplitOnSeparators(s, piece) ==
    IF s = <<>> THEN <<piece>>
    ELSE IF IsSeparator(Head(s))
         THEN <<piece>> \o SplitOnSeparators(DropSeparators(s), <<>>)
         ELSE SplitOnSeparators(Tail(s), Append(piece, Head(s)))

StripAll(pieces) == [i \in 1..Len(pieces) |-> Strip(pieces[i])]

\* ParseReceivers without the test for '@'
ParseReceiversNoAtTest(input) ==
    StripAll(SelectSeq(SplitOnSeparators(input, <<>>),
                       LAMBDA e : Strip(e) # <<>>))

\* [e.strip() for e in re.split(...) if e.strip() and '@' in e]
ParseReceivers(input) ==
    StripAll(SelectSeq(SplitOnSeparators(input, <<>>),
                       LAMBDA e : Strip(e) # <<>> /\ "@" \in Range(e)))

\* (.*?)(?:\n|\*|$): the characters up to the first newline or star
RECURSIVE UpToStop(_)
UpToStop(s) ==
    IF s = <<>> \/ Head(s) \in {"\n", "*"} THEN <<>>
    ELSE <<Head(s)>> \o UpToStop(Tail(s))

MarkerIndex(text) ==
    IF TopicMarker \in Range(text)
    THEN CHOOSE i \in 1..Len(text) :
            text[i] = TopicMarker /\ \A j \in 1..(i - 1) : text[j] # TopicMarker
    ELSE 0

\* re.search(r"\*\*Main Research Topic:\*\*\s*(.*?)(?:\n|\*|$)", topic_summary):
\* the pattern has one capturing group
ReSearch(text) ==
    IF MarkerIndex(text) = 0
    THEN [matched |-> FALSE, groups |-> <<>>]
    ELSE [matched |-> TRUE,
          groups |-> <<UpToStop(LStrip(SubSeq(text, MarkerIndex(text) + 1, Len(text))))>>]

\* match.group(n): IndexError("no such group") beyond the groups of the pattern
MatchGroup(match, n) ==
    IF n \in 1..Len(match.groups)
    THEN [raises |-> FALSE, value |-> match.groups[n]]
    ELSE [raises |-> TRUE, value |-> <<>>]

\* re.sub(r'\*\*.*', '', extracted_topic)
RECURSIVE CutAtStars(_)
CutAtStars(s) ==
    IF s = <<>> THEN <<>>
    ELSE IF Len(s) >= 2 /\ s[1] = "*" /\ s[2] = "*" THEN <<>>
    ELSE <<Head(s)>> \o CutAtStars(Tail(s))

UnknownTopic == <<"Unknown Topic">>

Lookup(by, query, o1) ==
    [by |-> by, query |-> query, outcome |-> o1.outcome, result |-> o1.result]

InitApp ==
    /\ AggOff
    /\ MailOff
    /\ PaperOff
    /\ app_pc = "idle"
    /\ button = "none"
    /\ topic_input = <<>>
    /\ uploaded = FALSE
    /\ receiver_input = <<>>
    /\ agent_result = None
    /\ topic = <<>>
    /\ email_section = FALSE
    /\ displayed = <<>>
    /\ summary = NoSummary
    /\ lookups = <<>>
    /\ agent1_returned = FALSE
    /\ agent2_call = NoAgent2Call

\* the user clicks Find Top Researchers with some text in the topic field,
\* puts a file in the uploader or takes it out, or clicks Send Email (a button
\* of the email section) with some text in the receivers field: the script
\* runs again from the top
AppEvent ==
    /\ app_pc = "idle"
    /\ \E ev \in {"find", "upload", "remove", "send"} :
        /\ ev = "upload" => ~uploaded
        /\ ev = "remove" => uploaded
        /\ ev = "send" => email_section
        /\ button' = IF ev \in {"find", "send"} THEN ev ELSE "none"
        /\ uploaded' = IF ev = "upload" THEN TRUE ELSE IF ev = "remove" THEN FALSE ELSE uploaded
        /\ IF ev = "find"
           THEN topic_input' \in TopicInputs
           ELSE topic_input' = topic_input
        /\ IF ev = "send"
           THEN \E n \in 0..MaxInput : receiver_input' \in [1..n -> InputChars]
           ELSE receiver_input' = receiver_input
    /\ app_pc' = "find"
    /\ UNCHANGED <<agent_result, topic, email_section, displayed, summary, lookups,
                   agent1_returned, agent2_call>>
    /\ UNCHANGED <<aggVars, mailVars, paperVars>>

\* the messages of the Find handler when it calls run_agent1
FindMessages(o1) ==
    IF o1.outcome = "returned"
    THEN <<Msg("find", "success", "Fetched top researchers successfully!"),
           Msg("find", "markdown", o1.result)>>
    ELSE <<Msg("find", "error", "Error fetching researchers: lookup failed")>>

\* AppFind without the try: an exception of run_agent1 ends the script
AppFindNoTry ==
    /\ app_pc = "find"
    /\ \E o1 \in Agent1Outcomes :
        LET called == button = "find" /\ Strip(topic_input) # <<>>
            returned == called /\ o1.outcome = "returned"
        IN  /\ lookups' = IF called
                          THEN Append(lookups, Lookup("find", topic_input, o1))
                          ELSE lookups
            /\ agent_result' = IF returned THEN o1.result ELSE agent_result
            /\ topic' = IF returned THEN topic_input ELSE topic
            /\ agent1_returned' = (agent1_returned \/ returned)
            /\ displayed' = IF returned THEN displayed \o FindMessages(o1)
                            ELSE IF button = "find" /\ ~called
                            THEN Append(displayed,
                                     Msg("find", "warning",
                                         "Please enter a topic before searching."))
                            ELSE displayed
            /\ app_pc' = IF called /\ ~returned THEN "crashed" ELSE "upload"
    /\ UNCHANGED <<button, topic_input, uploaded, receiver_input, email_section,
                   summary, agent2_call>>
    /\ UNCHANGED <<aggVars, mailVars, paperVars>>

\* AppFind that stores the topic before it calls run_agent1
AppFindTopicFirst ==
    /\ app_pc = "find"
    /\ \E o1 \in Agent1Outcomes :
        LET called == button = "find" /\ Strip(topic_input) # <<>>
            returned == called /\ o1.outcome = "returned"
        IN  /\ lookups' = IF called
                          THEN Append(lookups, Lookup("find", topic_input, o1))
                          ELSE lookups
            /\ agent_result' = IF returned THEN o1.result ELSE agent_result
            /\ topic' = IF called THEN topic_input ELSE topic
            /\ agent1_returned' = (agent1_returned \/ returned)
            /\ displayed' = IF called THEN displayed \o FindMessages(o1)
                            ELSE IF button = "find"
                            THEN Append(displayed,
                                     Msg("find", "warning",
                                         "Please enter a topic before searching."))
                            ELSE displayed
    /\ app_pc' = "upload"
    /\ UNCHANGED <<button, topic_input, uploaded, receiver_input, email_section,
                   summary, agent2_call>>
    /\ UNCHANGED <<aggVars, mailVars, paperVars>>

\* the block of the Find Top Researchers button: skipped unless the button
\* was clicked; a blank topic is warned about; otherwise run_agent1 is called
\* inside a try, and the session is written after it has returned
AppFind ==
    /\ app_pc = "find"
    /\ \E o1 \in Agent1Outcomes :
        LET called == button = "find" /\ Strip(topic_input) # <<>>
            returned == called /\ o1.outcome = "returned"
        IN  /\ lookups' = IF called
                          THEN Append(lookups, Lookup("find", topic_input, o1))
                          ELSE lookups
            /\ agent_result' = IF returned THEN o1.result ELSE agent_result
            /\ topic' = IF returned THEN topic_input ELSE topic
            /\ agent1_returned' = (agent1_returned \/ returned)
            /\ displayed' = IF called THEN displayed \o FindMessages(o1)
                            ELSE IF button = "find"
                            THEN Append(displayed,
                                     Msg("find", "warning",
                                         "Please enter a topic before searching."))
                            ELSE displayed
    /\ app_pc' = "upload"
    /\ UNCHANGED <<button, topic_input, uploaded, receiver_input, email_section,
                   summary, agent2_call>>
    /\ UNCHANGED <<aggVars, mailVars, paperVars>>

\* the group of the match the upload handler reads
TopicGroup == 2

\* the upload handler up to the end of its try, for the outcome o3 of
\* run_agent3 and the outcome o1 of run_agent1 (if it comes to be called):
\* the session values, the lookups and the messages it leaves
UploadRun(o3, o1) ==
    IF o3.outcome = "raised"
    THEN [topic |-> topic, agent_result |-> agent_result, lookups |-> lookups,
          returned |-> FALSE,
          msgs |-> <<Msg("upload", "error", "Error analyzing paper: cannot open file")>>]
    ELSE IF ReSearch(o3.text).matched /\ MatchGroup(ReSearch(o3.text), TopicGroup).raises
    THEN [topic |-> topic, agent_result |-> agent_result, lookups |-> lookups,
          returned |-> FALSE,
          msgs |-> <<Msg("upload", "markdown", Chars(o3.text)),
                     Msg("upload", "error", "Error analyzing paper: no such group")>>]
    ELSE LET extracted_topic ==
                 IF ReSearch(o3.text).matched
                 THEN Strip(CutAtStars(Strip(
                          MatchGroup(ReSearch(o3.text), TopicGroup).value)))
                 ELSE UnknownTopic
         IN  IF extracted_topic = UnknownTopic
             THEN [topic |-> extracted_topic, agent_result |-> agent_result,
                   lookups |-> lookups, returned |-> FALSE,
                   msgs |-> <<Msg("upload", "markdown", Chars(o3.text)),
                              Msg("upload", "warning",
                                  "Couldn't clearly detect a topic from the paper.")>>]
             ELSE IF o1.outcome = "returned"
             THEN [topic |-> extracted_topic, agent_result |-> o1.result,
                   lookups |-> Append(lookups, Lookup("upload", extracted_topic, o1)),
                   returned |-> TRUE,
                   msgs |-> <<Msg("upload", "markdown", Chars(o3.text)),
                              Msg("upload", "info", "Detected Topic"),
                              Msg("upload", "success",
                                  "Fetched top researchers successfully!"),
                              Msg("upload", "markdown", o1.result)>>]
             ELSE [topic |-> extracted_topic, agent_result |-> agent_result,
                   lookups |-> Append(lookups, Lookup("upload", extracted_topic, o1)),
                   returned |-> FALSE,
                   msgs |-> <<Msg("upload", "markdown", Chars(o3.text)),
                              Msg("upload", "info", "Detected Topic"),
                              Msg("upload", "error",
                                  "Error fetching researchers: lookup failed")>>]

\* the block of the uploader: skipped unless the uploader holds a file
AppUpload ==
    /\ app_pc = "upload"
    /\ IF uploaded
       THEN \E o3 \in Agent3Outcomes, o1 \in Agent1Outcomes :
            /\ summary' = o3
            /\ topic' = UploadRun(o3, o1).topic
            /\ agent_result' = UploadRun(o3, o1).agent_result
            /\ lookups' = UploadRun(o3, o1).lookups
            /\ agent1_returned' = (agent1_returned \/ UploadRun(o3, o1).returned)
            /\ displayed' = displayed \o UploadRun(o3, o1).msgs
       ELSE UNCHANGED <<summary, topic, agent_result, lookups, agent1_returned,
                        displayed>>
    /\ app_pc' = "email"
    /\ UNCHANGED <<button, topic_input, uploaded, receiver_input, email_section,
                   agent2_call>>
    /\ UNCHANGED <<aggVars, mailVars, paperVars>>

\* the messages of the email section for the outcome o2 of run_agent2
EmailMessages(o2) ==
    IF ~Truthy(agent_result)
    THEN IF topic # <<>> \/ uploaded
         THEN <<Msg("email", "info",
                    "Use one of the options above to find researchers first.")>>
         ELSE <<>>
    ELSE IF button # "send" THEN <<>>
    ELSE IF Strip(receiver_input) = <<>>
    THEN <<Msg("email", "error", "Please enter at least one receiver email address.")>>
    ELSE IF ParseReceivers(receiver_input) = <<>>
    THEN <<Msg("email", "error", "Please enter valid email addresses.")>>
    ELSE IF o2 = "returned"
    THEN <<Msg("email", "success", "Emails sent successfully!"),
           Msg("email", "text", "res")>>
    ELSE <<Msg("email", "error", "Error sending email: agent failed")>>

\* the email section: rendered only with a truthy agent_result; the block of
\* the Send Email button parses the receivers and calls run_agent2 in a try
AppEmail ==
    /\ app_pc = "email"
    /\ \E o2 \in {"returned", "raised"} :
        /\ displayed' = displayed \o EmailMessages(o2)
        /\ agent2_call' =
               IF /\ Truthy(agent_result)
                  /\ button = "send"
                  /\ Strip(receiver_input) # <<>>
                  /\ ParseReceivers(receiver_input) # <<>>
               THEN [made |-> TRUE, input |-> receiver_input,
                     receivers |-> ParseReceivers(receiver_input),
                     agent_result |-> agent_result,
                     after_lookup |-> agent1_returned]
               ELSE agent2_call
    /\ email_section' = Truthy(agent_result)
    /\ app_pc' = "end"
    /\ UNCHANGED <<button, topic_input, uploaded, receiver_input, agent_result,
                   topic, summary, lookups, agent1_returned>>
    /\ UNCHANGED <<aggVars, mailVars, paperVars>>

\* the script has run to its end: the session waits for the next interaction,
\* whose run replaces everything displayed
AppScriptEnds ==
    /\ app_pc = "end"
    /\ app_pc' = "idle"
    /\ displayed' = <<>>
    /\ summary' = NoSummary
    /\ lookups' = <<>>
    /\ agent2_call' = NoAgent2Call
    /\ receiver_input' = <<>>
    /\ button' = "none"
    /\ UNCHANGED <<topic_input, uploaded, agent_result, topic, email_section,
                   agent1_returned>>
    /\ UNCHANGED <<aggVars, mailVars, paperVars>>

NextApp ==
    \/ AppEvent
    \/ AppFind
    \/ AppUpload
    \/ AppEmail
    \/ AppScriptEnds

SpecApp == InitApp /\ [][NextApp]_vars

-----------------------------------------------------------------------------
(* The three operations side by side: one call of one of them *)

InitOps == Init \/ InitMail \/ InitPaper

NextOps == NextNames \/ NextMail \/ NextPaperAnalysis

SpecOps == InitOps /\ [][NextOps]_vars

-----------------------------------------------------------------------------
(* Properties of send_mail *)

\* the recipients of the messages yag.send accepted, in the order of sending
Recipients == [i \in 1..Len(dispatched) |-> dispatched[i].to]

IsPrefix(s, t) == Len(s) <= Len(t) /\ s = SubSeq(t, 1, Len(s))

ReceiversDefaulted == "receivers" \notin DOMAIN mail_args \/ mail_args.receivers = <<>>

BodyDefaulted ==
    \/ "ans" \notin DOMAIN mail_args
    \/ \A i \in 1..Len(mail_args.ans) : IsSpace(mail_args.ans[i])

\* C14: the messages sent are those of a prefix of the recipient list, one per
\* entry and in list order; every attempt but a failed last one has sent its
\* message; after a failed attempt send_mail has raised, nothing later was
\* attempted and no acknowledgment is returned; the acknowledgment is returned
\* only when every entry of the list has its message.
C14_DispatchInOrderAbortOnFailure ==
    /\ IsPrefix(Recipients, receivers)
    /\ send_attempts \in {Len(dispatched), Len(dispatched) + 1}
    /\ send_attempts <= Len(receivers)
    /\ send_attempts = Len(dispatched) + 1 => mail_pc = "raised"
    /\ mail_pc = "raised" => mail_ret = ""
    /\ mail_ret # "" => mail_pc = "done" /\ Recipients = receivers
    /\ mail_pc = "done" => mail_ret = Acknowledgment(receivers)

\* the second of three dispatches failed: the first message is sent, the third
\* was never attempted
C14_Witness ==
    /\ mail_pc = "raised"
    /\ Len(receivers) = 3
    /\ send_attempts = 2
    /\ Len(dispatched) = 1

\* C20: a call that returned has sent at least one message, none with a blank
\* body; with no recipient list passed, or an empty one, the messages went to
\* the fallback list; with no body passed, or a blank one, they carry the
\* default message; the acknowledgment names the recipients of the messages
\* sent, in order.
C20_FallbackRecipientsAndDefaultBody ==
    mail_pc = "done" =>
        /\ Len(dispatched) >= 1
        /\ \A i \in 1..Len(dispatched) :
               \E j \in 1..Len(dispatched[i].contents) :
                   ~IsSpace(dispatched[i].contents[j])
        /\ ReceiversDefaulted => Recipients = <<"rana.sayak.2001@gmail.com">>
        /\ ~ReceiversDefaulted => Recipients = mail_args.receivers
        /\ \A i \in 1..Len(dispatched) :
               dispatched[i].contents =
                   IF BodyDefaulted THEN DefaultBody ELSE mail_args.ans
        /\ mail_ret = "Emails sent successfully to: " \o Join(", ", Recipients)

\* a call with an empty recipient list and a blank body has returned
C20_Witness ==
    /\ mail_pc = "done"
    /\ "receivers" \in DOMAIN mail_args
    /\ mail_args.receivers = <<>>
    /\ "ans" \in DOMAIN mail_args
    /\ mail_args.ans = <<" ", "\n">>

-----------------------------------------------------------------------------
(* Properties of analyze_paper *)

\* C16: once the model was called, analyze_paper has returned a text and has
\* not raised: for a reply with content, the topic summary of the cleaned
\* first line when that line has more than 3 characters and at most 5 words,
\* and the "Could not extract" sentence otherwise; for a reply without
\* content or a model call that raised, an "Error analyzing paper" message.
C16_ModelReplyAlwaysYieldsAString ==
    model_calls > 0 =>
        /\ paper_pc = "done"
        /\ paper_ret # <<>>
        /\ IF response.kind = "content"
           THEN IF /\ Len(CleanTopic(response.content)) > 3
                   /\ WordCount(CleanTopic(response.content)) <= 5
                THEN paper_ret = <<"**Main Research Topic:**", " ">>
                                     \o CleanTopic(response.content)
                ELSE paper_ret = <<"Could not extract a clear topic from the paper.">>
           ELSE Head(paper_ret) = "Error analyzing paper: "

\* a reply of two lines whose first line has six words was turned down
C16_Witness ==
    /\ paper_pc = "done"
    /\ response.kind = "content"
    /\ "\n" \in Range(response.content)
    /\ WordCount(CleanTopic(response.content)) = 6
    /\ paper_ret = NoClearTopic

-----------------------------------------------------------------------------
(* Properties of the three operations *)

\* without SERPAPI_KEY the search returns its error and makes no request
SearchFailsFast ==
    (pc # "off" /\ ~serp_api_key) =>
        /\ search_calls = 0
        /\ pc \in {"start", "done"}
        /\ pc = "done" => ret = "ERROR: SERPAPI_KEY not found in environment variables."

\* without GEMINI_API_KEY the analysis of a readable paper returns its error
\* and makes no model call
AnalysisFailsFast ==
    (paper_pc # "off" /\ ~gemini_api_key) =>
        /\ model_calls = 0
        /\ (paper_pc = "done" /\ paper_text # <<>>) =>
               paper_ret = <<"Error: GEMINI_API_KEY missing.">>

-----------------------------------------------------------------------------
(* Properties of a session of app.py *)

\* the handler `by` has displayed a message of one of the kinds
Displayed(by, kinds) ==
    \E i \in 1..Len(displayed) : displayed[i].by = by /\ displayed[i].kind \in kinds

\* the handler `by` has displayed a success confirmation followed by content
DisplayedSuccess(by) ==
    \E i \in 1..(Len(displayed) - 1) :
        /\ displayed[i].by = by /\ displayed[i].kind = "success"
        /\ displayed[i + 1].by = by /\ displayed[i + 1].kind \in {"markdown", "text"}

Outcome(by) == DisplayedSuccess(by) \/ Displayed(by, {"error", "warning"})

\* C15: the script never ends on an exception, and in every run each handler
\* that was triggered (the Find button clicked, a file in the uploader, the
\* Send button clicked) has, once its block is over, displayed a success
\* confirmation with content or an error or warning message.
C15_EveryActionReports ==
    /\ app_pc # "crashed"
    /\ (button = "find" /\ app_pc \in {"upload", "email", "end"}) => Outcome("find")
    /\ (uploaded /\ app_pc \in {"email", "end"}) => Outcome("upload")
    /\ (button = "send" /\ app_pc = "end") => Outcome("email")

\* in one run the lookup of the Find button raised and so did the analysis of
\* the uploaded paper: both errors are displayed and the run is over
C15_Witness ==
    /\ app_pc = "end"
    /\ button = "find"
    /\ Len(lookups) = 1
    /\ lookups[1].outcome = "raised"
    /\ summary.outcome = "raised"
    /\ Displayed("find", {"error"})
    /\ Displayed("upload", {"error"})

\* the text X of a summary "**Main Research Topic:** X"
TopicOf(text) == SubSeq(text, 3, Len(text))

HasTopicForm(text) ==
    /\ Len(text) > 2
    /\ text[1] = TopicMarker
    /\ text[2] = " "

\* C17 as stated: once the upload handler is over in a run where the analysis
\* returned "**Main Research Topic:** X" with X non-empty, the session topic
\* is X and the last lookup of the run was made by the upload handler for X;
\* if that lookup returned, its result is the session's agent_result.
C17_UploadStoresTopicAndLooksUp ==
    ( /\ app_pc \in {"email", "end"}
      /\ summary.outcome = "returned"
      /\ HasTopicForm(summary.text) )
    => /\ topic = TopicOf(summary.text)
       /\ lookups # <<>>
       /\ lookups[Len(lookups)].by = "upload"
       /\ lookups[Len(lookups)].query = TopicOf(summary.text)
       /\ lookups[Len(lookups)].outcome = "returned" =>
              agent_result = lookups[Len(lookups)].result

\* C18: a call of run_agent2 was made with a truthy agent_result, after some
\* call of run_agent1 had returned in the session, and with a non-empty list
\* of receivers each of which contains '@'; the text typed was not blank and
\* one of its comma- or newline-separated pieces contains '@'.
C18_SendOnlyWithResultAndValidReceivers ==
    agent2_call.made =>
        /\ agent2_call.agent_result \notin {"None", ""}
        /\ agent2_call.after_lookup
        /\ agent2_call.receivers # <<>>
        /\ \A i \in 1..Len(agent2_call.receivers) :
               \E j \in 1..Len(agent2_call.receivers[i]) :
                   agent2_call.receivers[i][j] = "@"
        /\ \E j \in 1..Len(agent2_call.input) : agent2_call.input[j] = "@"
        /\ \E j \in 1..Len(agent2_call.input) : ~IsSpace(agent2_call.input[j])

\* a send was made for an input of two pieces of which one is an address
C18_Witness ==
    /\ agent2_call.made
    /\ Len(SplitOnSeparators(agent2_call.input, <<>>)) = 2
    /\ Len(agent2_call.receivers) = 1

====
